---- MODULE Spec2Model ----
(***************************************************************************)
(* Duty-cycle firmware of the Slumberr sleep monitor (Firmware/firmware.ino)*)
(* One boot = one run of setup(); deep sleep is a full power-down, so the   *)
(* globals isMorning and wifiInitialized are re-initialised on every boot,  *)
(* while the SPIFFS log file and the real-time clock survive.               *)
(***************************************************************************)
EXTENDS Integers, Sequences, FiniteSets, TLC

\* ---------------------------------------------------------------- bounds
MaxWakes == 3          \* boots explored (the wake counter is capped here)
MaxLoopIters == 2      \* iterations of the empty loop() that are counted

\* ------------------------------------------------------- program constants
MORNING_HOUR == 6
TILT_THRESHOLD == 15000
HoursPerDay == 24

\* ------------------------------------------------------ environment inputs
\* Hour of day at the first boot, and hours elapsed over one sleep period.
StartHours == {5, 23}
Advances == {0, 1}
\* Estimator outputs (int32_t) and DS18B20 readings in sixteenths of a degree.
HeartRates == {60}
SpO2s == {97}
TempSamples == {576, 577}
Samples == [hr : HeartRates, spo2 : SpO2s, temp16 : TempSamples]
\* mpu.getAcceleration readings (int16_t) for ax and ay.
AccelSamples == {-32768, -16000, -15000, 0, 10000, 15000, 15001, 16000}
AzSamples == {-32768, 0, 16384}
\* The ax and ay readings drawn on the wakes of the duty cycle.
WakeAccelSamples == {10000, 16000}
Readings == [ax : AccelSamples, ay : AccelSamples, az : AzSamples]
\* Value of accel when no particular reading is put before correctPosture.
NoReading == [ax |-> 0, ay |-> 0, az |-> 0]

VARIABLES
    pc,               \* position in setup(): which call comes next
    logFile,          \* /data_log.txt on SPIFFS: [exists, lines]
    rtcSet,           \* the RTC holds a valid wall-clock time
    now,              \* wall-clock time [day, hour]
    sink,             \* lines the collector has received, in order
    isMorning,        \* global, line 28
    wifiInitialized,  \* global, line 29
    wifiConnected,    \* radio associated
    timeinfo,         \* result of getLocalTime in setup: [ok, hour]
    motorPin,         \* VIBRATION_MOTOR_PIN level
    pulses,           \* HIGH->LOW pulses of the motor in this wake
    pinWrites,        \* levels written to the motor pin in this wake
    accel,            \* a reading [ax, ay, az] put before correctPosture
    timerArmed,       \* esp_sleep_enable_timer_wakeup was called this wake
    wakes,            \* number of boots so far
    loopIters,        \* iterations of loop() after setup() returned
    \* history variables (observations, not read by the program)
    bootstraps,       \* number of boots that ran configureTime
    lastSyncDay,      \* day of the last sendData call, -1 if none
    syncAttempted,    \* initializeWiFi was called for the sync in this wake
    delivery,         \* outcome of this wake's sendData
    appendResult,     \* outcome of this wake's collectAndLogData
    appendedIds,      \* ids of the records whose append returned
    pending           \* records appended since the log file was last removed

vars == <<pc, logFile, rtcSet, now, sink, isMorning, wifiInitialized,
          wifiConnected, timeinfo, motorPin, pulses, pinWrites, accel,
          timerArmed, wakes, loopIters, bootstraps, lastSyncDay, syncAttempted, delivery,
          appendResult, appendedIds, pending>>

\* ------------------------------------------------------------- the log file
NoFile == [exists |-> FALSE, lines |-> <<>>]

\* printf("%.2f") of a float: the value rounded to hundredths (ties to even).
\* The argument is in sixteenths of a degree, the result in hundredths.
FormatF2(t16) ==
    LET q == (t16 * 100) \div 16
        r == (t16 * 100) % 16
    IN  IF r > 8 \/ (r = 8 /\ q % 2 = 1) THEN q + 1 ELSE q

\* printf("%.2f") handed int32_t arguments: the conversion reads a double
\* where an int was passed, which is undefined.  The two outcomes kept are the
\* text of the values themselves and the text of a misread argument slot
\* (0.00); one printf call misreads both arguments or neither.
FormatF2Int(hr, spo2) == { <<hr * 100, spo2 * 100>>, <<0, 0>> }

\* The line collectAndLogData prints: "HH:MM:SS,hr,spo2,temp".  id stands for
\* the minute and second of the time stamp, which make the line unique.
LogLines(id, hour, s) ==
    { [id |-> id, hour |-> hour, hr100 |-> p[1], spo2_100 |-> p[2],
       temp100 |-> FormatF2(s.temp16)] : p \in FormatF2Int(s.hr, s.spo2) }

\* As AppendLine, had the file been opened with "w": earlier lines are lost.
AppendLine_Truncating(file, line) == [exists |-> TRUE, lines |-> <<line>>]

\* SPIFFS.open(path, "a") followed by printf and close.
AppendLine(file, line) == [exists |-> TRUE, lines |-> Append(file.lines, line)]

\* As TouchFile, had the file been opened with "w": its lines are lost.
TouchFile_Truncating(file) == [exists |-> TRUE, lines |-> <<>>]

\* SPIFFS.open(path, "a") followed by close with nothing printed.
TouchFile(file) == [exists |-> TRUE, lines |-> file.lines]

\* As LogOpens, had SPIFFS.open returned a usable File for a missing path.
LogOpens_Always(file) == TRUE

\* SPIFFS.open(path, "r"): fails when the file does not exist.
LogOpens(file) == file.exists

\* As RemoveLog, had the SPIFFS.remove call been left out.
RemoveLog_Skipped(file) == file

\* SPIFFS.remove(path)
RemoveLog(file) == NoFile

\* ------------------------------------------------------------------- helpers
\* As IsMorningAtBoot, had the flag been initialised to true.
IsMorningAtBoot_Set == TRUE

\* bool isMorning = false;  (reloaded on every boot)
IsMorningAtBoot == FALSE

\* bool wifiInitialized = false;  (reloaded on every boot)
WifiInitializedAtBoot == FALSE

\* As GateEligible, with a strict comparison.
GateEligible_Strict(hour) == hour > MORNING_HOUR

\* timeinfo.tm_hour >= MORNING_HOUR
GateEligible(hour) == hour >= MORNING_HOUR

\* As NextCall, had setup() acquired, logged and corrected the posture before
\* the clock read and the sync.
NextCall_AppendFirst(at) ==
    CASE at = "bootstrap" -> "collect"
      [] at = "collect"   -> "posture"
      [] at = "posture"   -> "gate"
      [] at = "send"      -> "prepare"
      [] at = "prepare"   -> "asleep"

\* As NextCall, had setup() gone from collectAndLogData straight to
\* prepareForDeepSleep.
NextCall_NoPosture(at) ==
    CASE at = "bootstrap" -> "gate"
      [] at = "send"      -> "collect"
      [] at = "collect"   -> "prepare"
      [] at = "posture"   -> "prepare"
      [] at = "prepare"   -> "asleep"

\* The straight-line order of setup(), lines 54-90: what follows the clock
\* bootstrap, the sync block, collectAndLogData, correctPosture and
\* prepareForDeepSleep.
NextCall(at) ==
    CASE at = "bootstrap" -> "gate"
      [] at = "send"      -> "collect"
      [] at = "collect"   -> "posture"
      [] at = "posture"   -> "prepare"
      [] at = "prepare"   -> "asleep"

\* As AfterConnect, had sendData been called whatever initializeWiFi returned.
AfterConnect_Unchecked(connected) == "send"

\* if (initializeWiFi()) sendData();
AfterConnect(connected) == IF connected THEN "send" ELSE NextCall("send")

\* abs(ax) > 15000 || abs(ay) > 15000
Abs(x) == IF x < 0 THEN -x ELSE x

\* As Tilted, with a comparison that includes the threshold.
Tilted_NonStrict(ax, ay) == Abs(ax) >= TILT_THRESHOLD \/ Abs(ay) >= TILT_THRESHOLD

Tilted(ax, ay) == Abs(ax) > TILT_THRESHOLD \/ Abs(ay) > TILT_THRESHOLD

\* The digitalWrite calls of correctPosture, lines 198-203.
MotorWrites(ax, ay) == IF Tilted(ax, ay) THEN <<"HIGH", "LOW">> ELSE <<>>

\* Number of HIGH-then-LOW pairs in a sequence of pin writes.
Pulses(writes) ==
    Cardinality({ i \in 1..(Len(writes) - 1) :
                    writes[i] = "HIGH" /\ writes[i + 1] = "LOW" })

\* The clock one sleep period later.
Tick(t, adv) ==
    [day  |-> t.day + ((t.hour + adv) \div HoursPerDay),
     hour |-> (t.hour + adv) % HoursPerDay]

Ids(seq) == { seq[i].id : i \in DOMAIN seq }

\* ---------------------------------------------------------------------- Init
Init ==
    /\ pc = "boot"
    /\ logFile = NoFile
    /\ rtcSet = FALSE
    /\ \E h \in StartHours : now = [day |-> 0, hour |-> h]
    /\ sink = <<>>
    /\ isMorning = IsMorningAtBoot
    /\ wifiInitialized = WifiInitializedAtBoot
    /\ wifiConnected = FALSE
    /\ timeinfo = [ok |-> FALSE, hour |-> 0]
    /\ motorPin = "LOW"
    /\ pulses = 0
    /\ pinWrites = <<>>
    /\ accel = NoReading
    /\ timerArmed = FALSE
    /\ wakes = 1
    /\ loopIters = 0
    /\ bootstraps = 0
    /\ lastSyncDay = -1
    /\ syncAttempted = FALSE
    /\ delivery = "none"
    /\ appendResult = "none"
    /\ appendedIds = {}
    /\ pending = <<>>

\* ------------------------------------------------------------------- actions
\* setup(), lines 42-52: mount the file system, start I2C and the sensors.
\* A failed mount returns from setup(), after which only loop() runs.
Mount ==
    /\ UNCHANGED <<accel, pinWrites>>
    /\ pc = "boot"
    /\ \E mounted \in BOOLEAN :
         pc' = IF mounted THEN "bootstrap" ELSE "loop"
    /\ UNCHANGED <<logFile, rtcSet, now, sink, isMorning, wifiInitialized,
                   wifiConnected, timeinfo, motorPin, pulses, timerArmed,
                   wakes, loopIters, bootstraps, lastSyncDay, syncAttempted,
                   delivery, appendResult, appendedIds, pending>>

\* setup(), lines 54-63: WiFi and NTP when wifiInitialized is false.
BootstrapClock ==
    /\ UNCHANGED <<accel, pinWrites>>
    /\ pc = "bootstrap"
    /\ pc' = NextCall("bootstrap")
    /\ IF ~wifiInitialized
         THEN \E connected \in BOOLEAN :
                IF connected
                  THEN /\ \E ntp \in BOOLEAN : rtcSet' = (rtcSet \/ ntp)
                       /\ wifiInitialized' = TRUE
                       /\ bootstraps' = bootstraps + 1
                  ELSE UNCHANGED <<rtcSet, wifiInitialized, bootstraps>>
         ELSE UNCHANGED <<rtcSet, wifiInitialized, bootstraps>>
    /\ wifiConnected' = FALSE
    /\ UNCHANGED <<logFile, now, sink, isMorning, timeinfo, motorPin, pulses,
                   timerArmed, wakes, loopIters, lastSyncDay, syncAttempted,
                   delivery, appendResult, appendedIds, pending>>

\* setup(), lines 66-75 and 81-83: read the clock and decide on the sync.
ReadClockAndGate ==
    /\ UNCHANGED <<accel, pinWrites>>
    /\ pc = "gate"
    /\ timeinfo' = [ok |-> rtcSet, hour |-> IF rtcSet THEN now.hour ELSE 0]
    /\ isMorning' = IF rtcSet /\ GateEligible(now.hour) THEN TRUE ELSE isMorning
    /\ pc' = IF rtcSet /\ isMorning' THEN "connect" ELSE NextCall("send")
    /\ UNCHANGED <<logFile, rtcSet, now, sink, wifiInitialized, wifiConnected,
                   motorPin, pulses, timerArmed, wakes, loopIters, bootstraps,
                   lastSyncDay, syncAttempted, delivery, appendResult,
                   appendedIds, pending>>

\* setup(), line 76: initializeWiFi() for the sync.
SyncConnect ==
    /\ UNCHANGED <<accel, pinWrites>>
    /\ pc = "connect"
    /\ \E connected \in BOOLEAN :
         /\ wifiConnected' = connected
         /\ pc' = AfterConnect(connected)
    /\ syncAttempted' = TRUE
    /\ UNCHANGED <<logFile, rtcSet, now, sink, isMorning, wifiInitialized,
                   timeinfo, motorPin, pulses, timerArmed, wakes, loopIters,
                   bootstraps, lastSyncDay, delivery, appendResult,
                   appendedIds, pending>>

\* sendData() and setup() line 78.  The collector receives the first k lines;
\* delivery succeeded when it received them all.  The file is removed whatever
\* the collector received.
SendData ==
    /\ UNCHANGED <<accel, pinWrites>>
    /\ pc = "send"
    /\ pc' = NextCall("send")
    /\ isMorning' = FALSE
    /\ lastSyncDay' = now.day
    /\ IF ~LogOpens(logFile)
         THEN /\ delivery' = "nofile"
              /\ UNCHANGED <<logFile, sink, pending>>
         ELSE /\ \E k \in 0..Len(logFile.lines) :
                   /\ sink' = sink \o SubSeq(logFile.lines, 1, k)
                   /\ delivery' = IF k = Len(logFile.lines) THEN "ok" ELSE "fail"
              /\ logFile' = RemoveLog(logFile)
              /\ pending' = <<>>
    /\ UNCHANGED <<rtcSet, now, wifiInitialized, wifiConnected, timeinfo,
                   motorPin, pulses, timerArmed, wakes, loopIters, bootstraps,
                   syncAttempted, appendResult, appendedIds>>

\* collectAndLogData().
CollectAndLogData ==
    /\ UNCHANGED <<accel, pinWrites>>
    /\ pc = "collect"
    /\ pc' = NextCall("collect")
    /\ \E s \in Samples, opened \in BOOLEAN :
         IF ~opened
           THEN /\ appendResult' = "ioFail"
                /\ UNCHANGED <<logFile, appendedIds, pending>>
           ELSE IF rtcSet
             THEN /\ \E line \in LogLines(wakes, now.hour, s) :
                        logFile' = AppendLine(logFile, line)
                  /\ appendResult' = "ok"
                  /\ appendedIds' = appendedIds \cup {wakes}
                  /\ pending' = Append(pending,
                                  [id |-> wakes, hour |-> now.hour, sample |-> s])
             ELSE /\ logFile' = TouchFile(logFile)
                  /\ appendResult' = "noClock"
                  /\ UNCHANGED <<appendedIds, pending>>
    /\ UNCHANGED <<rtcSet, now, sink, isMorning, wifiInitialized,
                   wifiConnected, timeinfo, motorPin, pulses, timerArmed,
                   wakes, loopIters, bootstraps, lastSyncDay, syncAttempted,
                   delivery>>

\* correctPosture() for the reading r returned by mpu.getAcceleration.
PostureEffect(r) ==
    LET writes == MotorWrites(r.ax, r.ay)
    IN  /\ pinWrites' = pinWrites \o writes
        /\ pulses' = pulses + Pulses(writes)
        /\ motorPin' = IF writes = <<>> THEN motorPin ELSE writes[Len(writes)]

\* correctPosture().
CorrectPosture ==
    /\ pc = "posture"
    /\ pc' = NextCall("posture")
    /\ \E ax \in WakeAccelSamples, ay \in WakeAccelSamples :
         PostureEffect([ax |-> ax, ay |-> ay, az |-> NoReading.az])
    /\ UNCHANGED accel
    /\ UNCHANGED <<logFile, rtcSet, now, sink, isMorning, wifiInitialized,
                   wifiConnected, timeinfo, timerArmed, wakes, loopIters,
                   bootstraps, lastSyncDay, syncAttempted, delivery,
                   appendResult, appendedIds, pending>>

\* prepareForDeepSleep(): arm the timer and power down.
PrepareForDeepSleep ==
    /\ UNCHANGED <<accel, pinWrites>>
    /\ pc = "prepare"
    /\ pc' = NextCall("prepare")
    /\ timerArmed' = TRUE
    /\ wifiConnected' = FALSE
    /\ UNCHANGED <<logFile, rtcSet, now, sink, isMorning, wifiInitialized,
                   timeinfo, motorPin, pulses, wakes, loopIters, bootstraps,
                   lastSyncDay, syncAttempted, delivery, appendResult,
                   appendedIds, pending>>

\* The wake timer fires: a cold boot.  Globals take their initial values
\* (lines 28-29); the file system and the clock are kept.
TimerWake ==
    /\ UNCHANGED accel
    /\ pinWrites' = <<>>
    /\ pc = "asleep"
    /\ wakes < MaxWakes
    /\ pc' = "boot"
    /\ wakes' = wakes + 1
    /\ \E adv \in Advances : now' = Tick(now, adv)
    /\ isMorning' = IsMorningAtBoot
    /\ wifiInitialized' = WifiInitializedAtBoot
    /\ timeinfo' = [ok |-> FALSE, hour |-> 0]
    /\ pulses' = 0
    /\ timerArmed' = FALSE
    /\ syncAttempted' = FALSE
    /\ delivery' = "none"
    /\ appendResult' = "none"
    /\ UNCHANGED <<logFile, rtcSet, sink, wifiConnected, motorPin, loopIters,
                   bootstraps, lastSyncDay, appendedIds, pending>>

\* The device is switched off and on again while asleep: a cold boot as
\* above, where the clock has lost its time as well.  The file system is kept.
PowerOnReset ==
    /\ UNCHANGED accel
    /\ pinWrites' = <<>>
    /\ pc = "asleep"
    /\ wakes < MaxWakes
    /\ pc' = "boot"
    /\ wakes' = wakes + 1
    /\ \E adv \in Advances : now' = Tick(now, adv)
    /\ rtcSet' = FALSE
    /\ isMorning' = IsMorningAtBoot
    /\ wifiInitialized' = WifiInitializedAtBoot
    /\ timeinfo' = [ok |-> FALSE, hour |-> 0]
    /\ pulses' = 0
    /\ timerArmed' = FALSE
    /\ syncAttempted' = FALSE
    /\ delivery' = "none"
    /\ appendResult' = "none"
    /\ UNCHANGED <<logFile, sink, wifiConnected, motorPin, loopIters,
                   bootstraps, lastSyncDay, appendedIds, pending>>

\* loop(), lines 212-214: runs forever once setup() has returned.
Loop ==
    /\ UNCHANGED <<accel, pinWrites>>
    /\ pc = "loop"
    /\ loopIters < MaxLoopIters
    /\ loopIters' = loopIters + 1
    /\ UNCHANGED <<pc, logFile, rtcSet, now, sink, isMorning, wifiInitialized,
                   wifiConnected, timeinfo, motorPin, pulses, timerArmed,
                   wakes, bootstraps, lastSyncDay, syncAttempted, delivery,
                   appendResult, appendedIds, pending>>

Next ==
    \/ Mount
    \/ BootstrapClock
    \/ ReadClockAndGate
    \/ SyncConnect
    \/ SendData
    \/ CollectAndLogData
    \/ CorrectPosture
    \/ PrepareForDeepSleep
    \/ TimerWake
    \/ PowerOnReset
    \/ Loop

Spec == Init /\ [][Next]_vars

\* ------------------------------------------- correctPosture on every reading
\* The first wake of a device whose WiFi did not connect, at the call of
\* correctPosture (clock unset, log file created empty), with each reading.
InitPosture ==
    /\ pc = "posture"
    /\ logFile = TouchFile(NoFile)
    /\ rtcSet = FALSE
    /\ \E h \in StartHours : now = [day |-> 0, hour |-> h]
    /\ sink = <<>>
    /\ isMorning = IsMorningAtBoot
    /\ wifiInitialized = WifiInitializedAtBoot
    /\ wifiConnected = FALSE
    /\ timeinfo = [ok |-> FALSE, hour |-> 0]
    /\ motorPin = "LOW"
    /\ pulses = 0
    /\ pinWrites = <<>>
    /\ accel \in Readings
    /\ timerArmed = FALSE
    /\ wakes = 1
    /\ loopIters = 0
    /\ bootstraps = 0
    /\ lastSyncDay = -1
    /\ syncAttempted = FALSE
    /\ delivery = "none"
    /\ appendResult = "noClock"
    /\ appendedIds = {}
    /\ pending = <<>>

\* correctPosture() on the reading held in accel.
CorrectPostureReading ==
    /\ pc = "posture"
    /\ pc' = NextCall("posture")
    /\ PostureEffect(accel)
    /\ UNCHANGED <<accel, logFile, rtcSet, now, sink, isMorning,
                   wifiInitialized, wifiConnected, timeinfo, timerArmed, wakes,
                   loopIters, bootstraps, lastSyncDay, syncAttempted, delivery,
                   appendResult, appendedIds, pending>>

NextPosture == CorrectPostureReading

PostureSpec == InitPosture /\ [][NextPosture]_vars

\* ===================================================================== claims
Lines(file) == file.lines
AfterGate == {"collect", "posture", "prepare", "asleep"}

\* The text of a line carries exactly the values of the record it was made of.
SameValues(line, rec) ==
    /\ line.id = rec.id
    /\ line.hour = rec.hour
    /\ line.hr100 = rec.sample.hr * 100
    /\ line.spo2_100 = rec.sample.spo2 * 100
    /\ line.temp100 * 16 = rec.sample.temp16 * 100

\* The lines sendData handed over in the step just taken.
Batch == SubSeq(sink', Len(sink) + 1, Len(sink'))

\* C1: sendData clears the log store if and only if delivery succeeded: on a
\* failed delivery the store is unchanged, on a successful one it is empty.
C1_ClearIffDelivered ==
    [][(pc = "send" /\ logFile.exists) =>
          IF delivery' = "ok" THEN Len(Lines(logFile')) = 0
                              ELSE logFile' = logFile]_vars

\* C2: every record whose append returned is still in the store or has been
\* delivered to the sink.
C2_NoRecordLost ==
    \A id \in appendedIds : id \in Ids(Lines(logFile)) \cup Ids(sink)

\* C3: setup() is never left without the wake timer armed: the device does
\* not end up in loop(), awake, with no timer set.
C3_AlwaysArmsTimer == pc = "loop" => timerArmed

\* C4: the clock bootstrap (initializeWiFi then configureTime) runs at most
\* once in the device's lifetime.
C4_BootstrapAtMostOnce == bootstraps <= 1

\* C5: sendData does not run on a day on which it has already run.
C5_OneSyncPerDay ==
    [][(pc = "send" /\ pc' = "collect") => lastSyncDay # now.day]_vars

C7_RoundTrip ==
    [][(pc = "send" /\ logFile.exists /\ delivery' = "ok") =>
          /\ Len(Batch) = Len(pending)
          /\ \A i \in DOMAIN pending : SameValues(Batch[i], pending[i])
          /\ Len(Lines(logFile')) = 0]_vars

\* C8: on a wake whose clock read succeeded, a sync was attempted if and only
\* if the hour read on this wake is at least 6.
C8_GateIsHourAtLeastSix ==
    (pc \in AfterGate /\ timeinfo.ok) => (syncAttempted <=> timeinfo.hour >= 6)

\* A second wake, at 06:00, that attempted the sync.
C8_Witness ==
    /\ pc = "asleep"
    /\ wakes >= 2
    /\ timeinfo.ok /\ timeinfo.hour = 6
    /\ syncAttempted

\* C9: with the hour below the threshold the sync step goes straight on to
\* the acquisition: no connection attempt, nothing delivered, and the store
\* and the radio exactly as before.
C9_GateFalseIsNoOp ==
    [][(pc = "gate" /\ rtcSet /\ now.hour < MORNING_HOUR) =>
          /\ pc' = "collect"
          /\ ~syncAttempted'
          /\ delivery' = "none"
          /\ UNCHANGED <<logFile, sink, wifiConnected>>]_vars

\* A wake at hour 5 that passed the gate with a record in the store.
C9_Witness ==
    /\ pc = "collect"
    /\ timeinfo.ok /\ timeinfo.hour < MORNING_HOUR
    /\ ~syncAttempted
    /\ Len(Lines(logFile)) >= 1

\* C10: when the connection attempt of an eligible wake fails, sendData is not
\* called: nothing is delivered and the store is unchanged.
C10_ConnectFailureIsNoOp ==
    [][(pc = "connect" /\ ~wifiConnected') =>
          /\ pc' = "collect"
          /\ delivery' = "none"
          /\ UNCHANGED <<logFile, sink, pending>>]_vars

\* An eligible wake whose connection failed, with a record still in the store.
C10_Witness ==
    /\ pc = "collect"
    /\ timeinfo.ok /\ timeinfo.hour >= MORNING_HOUR
    /\ syncAttempted /\ ~wifiConnected
    /\ delivery = "none"
    /\ Len(Lines(logFile)) >= 1

\* C11: when the log file cannot be opened for append, only this wake's record
\* is dropped: the store, the sink and the set of appended records are as
\* before, and the wake goes on to the posture check, arms the timer and
\* enters deep sleep.
C11_AppendFailureDropsOneRecord ==
    [][/\ (pc = "collect" /\ appendResult' = "ioFail") =>
            /\ pc' = "posture"
            /\ UNCHANGED <<logFile, sink, appendedIds>>
       /\ (pc = "posture" /\ appendResult = "ioFail") =>
            /\ pc' = "prepare"
            /\ UNCHANGED <<logFile, sink, appendedIds>>
       /\ (pc = "prepare" /\ appendResult = "ioFail") =>
            /\ pc' = "asleep"
            /\ timerArmed'
            /\ UNCHANGED <<logFile, sink, appendedIds>>]_vars

\* A wake asleep after a failed append, with an earlier record still stored.
C11_Witness ==
    /\ pc = "asleep"
    /\ timerArmed
    /\ appendResult = "ioFail"
    /\ Len(Lines(logFile)) >= 1
    /\ wakes \notin Ids(Lines(logFile))

\* The calls of one wake in the order of setup(); the sync calls may be
\* skipped, nothing else may.
Follows ==
    { <<"boot", "bootstrap">>, <<"bootstrap", "gate">>,
      <<"gate", "connect">>, <<"gate", "collect">>,
      <<"connect", "send">>, <<"connect", "collect">>,
      <<"send", "collect">>, <<"collect", "posture">>,
      <<"posture", "prepare">>, <<"prepare", "asleep">>,
      <<"asleep", "boot">> }

\* C12: within a wake the steps follow the fixed order bootstrap, clock read,
\* sync, acquisition and append, posture, arm and sleep; the record of a wake
\* has not been handed to the sink in that wake; and once the timer is armed
\* the device is asleep and nothing touches the store, the sink, the radio or
\* the actuator until the next boot.
C12_FixedOrder ==
    /\ [][/\ (pc' # pc /\ pc' # "loop") => <<pc, pc'>> \in Follows
          /\ timerArmed =>
               /\ pc' = "boot"
               /\ UNCHANGED <<logFile, sink, wifiConnected, motorPin>>]_vars
    /\ [](wakes \notin Ids(sink))
    /\ [](timerArmed => pc = "asleep")

\* A wake asleep after a sync that drained earlier records and an append made
\* after that sync.
C12_Witness ==
    /\ pc = "asleep"
    /\ timerArmed
    /\ delivery = "ok"
    /\ Len(sink) >= 1
    /\ appendResult = "ok"
    /\ Ids(Lines(logFile)) = {wakes}

\* C13: correctPosture writes the motor pin HIGH then LOW, once, when ax or ay
\* is above 15000 or below -15000, and does not write the pin otherwise; the
\* pin is LOW when it returns, and az plays no part.
C13_PulseIffTilted ==
    [][pc = "posture" =>
         LET big == \/ accel.ax > 15000 \/ accel.ax < -15000
                    \/ accel.ay > 15000 \/ accel.ay < -15000
         IN  /\ pinWrites' = IF big THEN <<"HIGH", "LOW">> ELSE <<>>
             /\ pulses' = IF big THEN 1 ELSE 0
             /\ motorPin' = "LOW"]_vars

\* correctPosture has returned for ax exactly at the threshold and ay beyond
\* it on the negative side: one pulse.
C13_Witness ==
    /\ pc = "prepare"
    /\ accel.ax = 15000 /\ accel.ay = -16000
    /\ pulses = 1
    /\ pinWrites = <<"HIGH", "LOW">>

\* C14: delivery failures only postpone delivery.  In the form a finite run
\* decides: on a wake whose sync delivered the whole file, every record
\* appended on an earlier wake has reached the sink.
C14_DeliveredByNextGoodSync ==
    delivery = "ok" => (appendedIds \ {wakes}) \subseteq Ids(sink)

\* C15: no record is handed to the sink twice, and a record that has been
\* handed to the sink is no longer in the store.
C15_NoRecordDeliveredTwice ==
    /\ \A i, j \in DOMAIN sink : sink[i].id = sink[j].id => i = j
    /\ Ids(sink) \cap Ids(Lines(logFile)) = {}

\* Three wakes: the records of the first two were delivered by two successive
\* syncs, the third is in the store.
C15_Witness ==
    /\ pc = "asleep"
    /\ Ids(sink) = {1, 2}
    /\ Ids(Lines(logFile)) = {3}

\* C16: sendData on a store without a log file returns at once: nothing is
\* delivered, nothing is removed and the store is still empty.
C16_SyncOfEmptyStoreIsNoOp ==
    [][(pc = "send" /\ ~logFile.exists) =>
          /\ delivery' = "nofile"
          /\ UNCHANGED <<logFile, sink>>
          /\ Len(Lines(logFile')) = 0]_vars

\* A sync that found no log file, on a wake after a drain that delivered a
\* record.
C16_Witness ==
    /\ pc = "collect"
    /\ delivery = "nofile"
    /\ Len(sink) >= 1
    /\ ~logFile.exists

\* C17: on a wake whose clock read fails no sync and no connection for a sync
\* is attempted, the records in the store stay as they are for the whole
\* wake, and the wake goes on through acquisition and posture check to sleep.
C17_ClockFailureSkipsSync ==
    [][/\ (pc = "gate" /\ ~rtcSet) =>
            /\ pc' = "collect"
            /\ ~timeinfo'.ok
            /\ UNCHANGED <<logFile, sink, wifiConnected, syncAttempted>>
       /\ (pc \in {"collect", "posture", "prepare"} /\ ~timeinfo.ok) =>
            /\ <<pc, pc'>> \in Follows
            /\ Lines(logFile') = Lines(logFile)
            /\ ~syncAttempted'
            /\ UNCHANGED sink]_vars

\* A wake asleep after a failed clock read, with an earlier record still in
\* the store.
C17_Witness ==
    /\ pc = "asleep"
    /\ timerArmed
    /\ ~timeinfo.ok
    /\ ~syncAttempted
    /\ appendResult = "noClock"
    /\ Len(Lines(logFile)) >= 1
====
